---------------------------- MODULE Spec2Model ----------------------------
(***************************************************************************)
(* A model of rtclite/app/web/rtc/notify.py: the WebRTC signalling server  *)
(* that pairs at most two websocket connections per path, relays NOTIFY    *)
(* messages between them, queues them while the peer is absent and answers *)
(* GET /peerconnection with a static configuration.                        *)
(*                                                                         *)
(* The four hooks (onhandshake, onopen, onmessage, onclose) are the        *)
(* actions; each runs atomically.  The websocket transport (rfc6455) is    *)
(* the environment.  For each connection it calls onhandshake, then onopen *)
(* if the handshake was accepted, then onmessage any number of times, then *)
(* onclose once.  A connection the server closed itself (other.close() in  *)
(* onclose) still gets its close hook some time later, and messages of it  *)
(* that were already in flight may be processed before that hook.  A       *)
(* send_message call may fail when the socket written to is gone.          *)
(*                                                                         *)
(* Two further specifications leave the atomic hooks: SpecNested, where    *)
(* close() runs the onclose hook of the closed connection at once, and     *)
(* SpecSteps, where the hooks of different connections interleave          *)
(* statement by statement.                                                 *)
(***************************************************************************)
EXTENDS Integers, Sequences, FiniteSets, TLC

(* Bounds of the model. *)
NumConns == 3
NumPaths == 2
MaxMsgs  == 2
NumIds   == 1

Conns == 1..NumConns
Paths == 1..NumPaths
None  == 0

VARIABLES
    spaces,       \* the table from path to Space object (notify.py:162)
    phase,        \* the transport's position for each connection
    path,         \* request.path of each connection (None before handshake)
    sent,         \* per connection, the texts passed to its send_message
    closeCalled,  \* the connections on which the server called close()
    nmsg,         \* number of onmessage calls so far
    failed,       \* the NOTIFY texts whose forwarding send_message raised
                  \* (kept by SpecForward only)
    submitter,    \* submitter[n]: the connection that sent NotifyMessage(n)
                  \* (kept by SpecSender and SpecSteps only)
    orphaned,     \* payloads still queued by a connection when its onclose ran
    heap,         \* the Space objects ever created, by identity
    reg,          \* the table from path to the identity of a Space object
    thread        \* per connection, the statement its running hook is at and
                  \* the hook's local variables
                  \* (heap, reg and thread are kept by SpecSteps only, where
                  \* spaces is the table seen through reg)

stepVars == <<heap, reg, thread>>

vars == <<spaces, phase, path, sent, closeCalled, nmsg, failed, submitter,
          orphaned, stepVars>>

-----------------------------------------------------------------------------
(* JSON texts are sequences of <<key, value>> members; dictionaries are     *)
(* functions from keys to values.                                           *)

RECURSIVE KeySeq(_)
KeySeq(keys) ==
    IF keys = {} THEN <<>>
    ELSE LET k == CHOOSE x \in keys : TRUE
         IN  <<k>> \o KeySeq(keys \ {k})

json_dumps(obj) ==
    LET ks == KeySeq(DOMAIN obj)
    IN  [i \in 1..Len(ks) |-> <<ks[i], obj[ks[i]]>>]

parses(text) == \A i \in 1..Len(text) : Len(text[i]) = 2

json_loads(text) ==
    [k \in {text[i][1] : i \in 1..Len(text)} |->
        text[CHOOSE i \in 1..Len(text) : text[i][1] = k][2]]

configuration == [iceServers |-> << [url |-> "stun:stun.l.google.com:19302"] >>]

-----------------------------------------------------------------------------
(* class Space *)

Space(p) == [path |-> p, requests |-> <<>>, pending |-> <<>>]

\* a capacity check that is off by one
is_full_above_two(space) == Len(space.requests) > 2

is_full(space) == Len(space.requests) >= 2

is_empty(space) == Len(space.requests) = 0

add(space, request) == [space EXCEPT !.requests = Append(@, request)]

\* list.remove: drops the first occurrence, raises (ignored) when absent
list_remove(seq, x) ==
    IF \E i \in 1..Len(seq) : seq[i] = x
    THEN LET k == CHOOSE i \in 1..Len(seq) :
                     seq[i] = x /\ \A j \in 1..(i-1) : seq[j] # x
         IN  SubSeq(seq, 1, k-1) \o SubSeq(seq, k+1, Len(seq))
    ELSE seq

keep_pending(entry, request) == entry[1] # request

remove(space, request) ==
    [space EXCEPT !.requests = list_remove(@, request),
                  !.pending  = SelectSeq(@, LAMBDA e : keep_pending(e, request))]

\* The first member, whoever asks.
get_other_first(space, request) ==
    IF space.requests # <<>> THEN space.requests[1] ELSE None

get_other(space, request) ==
    LET result == SelectSeq(space.requests, LAMBDA x : x # request)
    IN  IF result # <<>> THEN result[1] ELSE None

-----------------------------------------------------------------------------
\* A connection with no hook running.
Idle == [pc |-> "idle", space |-> None, other |-> None, i |-> 0, data |-> ""]

Init ==
    /\ spaces = <<>>
    /\ phase = [c \in Conns |-> "new"]
    /\ path = [c \in Conns |-> None]
    /\ sent = [c \in Conns |-> <<>>]
    /\ closeCalled = {}
    /\ nmsg = 0
    /\ failed = {}
    /\ submitter = <<>>
    /\ orphaned = {}
    /\ heap = <<>>
    /\ reg = <<>>
    /\ thread = [c \in Conns |-> Idle]


-----------------------------------------------------------------------------
(* The spaces table as a function whose domain is the set of registered   *)
(* paths: `path in spaces` is p \in DOMAIN spaces.                          *)

Put(table, p, space) ==
    [x \in (DOMAIN table) \cup {p} |-> IF x = p THEN space ELSE table[x]]

Del(table, p) == [x \in (DOMAIN table) \ {p} |-> table[x]]

payloads(pending) == {pending[i][2] : i \in 1..Len(pending)}

-----------------------------------------------------------------------------
(* onhandshake(request, path, headers) *)

onhandshake_raises(p) == p \in DOMAIN spaces /\ is_full(spaces[p])

\* Connections are numbered in the order the transport accepts them and
\* paths in the order they are first requested.
OnHandshake(c, p) ==
    /\ phase[c] = "new"
    /\ \A b \in Conns : b < c => phase[b] # "new"
    /\ p \in {1} \cup {path[b] + 1 : b \in Conns}
    /\ path' = [path EXCEPT ![c] = p]
    /\ phase' = [phase EXCEPT ![c] = IF onhandshake_raises(p)
                                      THEN "rejected" ELSE "accepted"]
    /\ UNCHANGED <<spaces, sent, closeCalled, nmsg, failed, submitter, orphaned,
                   stepVars>>

-----------------------------------------------------------------------------
(* onopen(request) *)

onopen_space(request) ==
    IF path[request] \in DOMAIN spaces
    THEN spaces[path[request]]
    ELSE Space(path[request])

notify_text(data) == json_dumps([method |-> "NOTIFY", data |-> data])

\* a flush that sends the newest entry first
onopen_flush_newest_first(pending) ==
    [i \in 1..Len(pending) |-> notify_text(pending[Len(pending) + 1 - i][2])]

onopen_flush(pending) == [i \in 1..Len(pending) |-> notify_text(pending[i][2])]

onopen_spaces(request) ==
    LET space == add(onopen_space(request), request)
    IN  Put(spaces, path[request], [space EXCEPT !.pending = <<>>])

OnOpen(c) ==
    /\ phase[c] = "accepted"
    /\ phase' = [phase EXCEPT ![c] = "open"]
    /\ sent' = [sent EXCEPT ![c] = @ \o onopen_flush(onopen_space(c).pending)]
    /\ spaces' = onopen_spaces(c)
    /\ UNCHANGED <<path, closeCalled, nmsg, failed, submitter, orphaned, stepVars>>

-----------------------------------------------------------------------------
(* onclose(request) *)

onclose_other(request) ==
    IF path[request] \in DOMAIN spaces
    THEN get_other(spaces[path[request]], request)
    ELSE None

\* a close that forgets the other member
onclose_space_no_cascade(request) == remove(spaces[path[request]], request)

onclose_space(request) ==
    LET space == remove(spaces[path[request]], request)
        other == onclose_other(request)
    IN  IF other # None THEN remove(space, other) ELSE space

\* a close that never deletes the Space
onclose_spaces_no_delete(request) ==
    IF path[request] \in DOMAIN spaces
    THEN Put(spaces, path[request], onclose_space(request))
    ELSE spaces

\* a close that only takes the members out of the list and keeps the Space
\* and what is queued in it
onclose_spaces_keeps_queue(request) ==
    IF path[request] \in DOMAIN spaces
    THEN Put(spaces, path[request],
             [spaces[path[request]] EXCEPT
                 !.requests = onclose_space(request).requests])
    ELSE spaces

onclose_spaces(request) ==
    IF path[request] \in DOMAIN spaces
    THEN IF is_empty(onclose_space(request))
         THEN Del(spaces, path[request])
         ELSE Put(spaces, path[request], onclose_space(request))
    ELSE spaces

\* History: what the closing connection had queued and nobody received.
onclose_queued(request) ==
    IF path[request] \in DOMAIN spaces
    THEN payloads(SelectSeq(spaces[path[request]].pending,
                            LAMBDA e : e[1] = request))
    ELSE {}

OnClose(c) ==
    /\ phase[c] = "open"
    /\ phase' = [phase EXCEPT ![c] = "closed"]
    /\ spaces' = onclose_spaces(c)
    /\ closeCalled' = closeCalled \cup ({onclose_other(c)} \ {None})
    /\ orphaned' = orphaned \cup onclose_queued(c)
    /\ UNCHANGED <<path, sent, nmsg, failed, submitter, stepVars>>

-----------------------------------------------------------------------------
(* onclose(request) with a transport whose close() runs the onclose hook of *)
(* the connection it closes before it returns (line 193).  The Space is one *)
(* object: what the inner hook does to it is what the outer hook sees at    *)
(* line 194.                                                                *)

CloseResult(table, outcome, ran, called) ==
    [spaces |-> table, outcome |-> outcome, ran |-> ran, called |-> called]

RECURSIVE onclose_nested(_, _)
onclose_nested(table, request) ==
    LET p == path[request]
    IN  IF p \notin DOMAIN table
        THEN CloseResult(table, "ok", {request}, {})
        ELSE LET other == get_other(table[p], request)
                 space == remove(table[p], request)
             IN  IF other = None
                 THEN CloseResult(IF is_empty(space) THEN Del(table, p)
                                                     ELSE Put(table, p, space),
                                  "ok", {request}, {})
                 ELSE LET inner == onclose_nested(Put(table, p, remove(space, other)),
                                                  other)
                          ran    == inner.ran \cup {request}
                          called == inner.called \cup {other}
                      IN  IF inner.outcome # "ok"
                          THEN CloseResult(inner.spaces, inner.outcome, ran, called)
                          ELSE IF p \in DOMAIN inner.spaces
                               THEN CloseResult(IF is_empty(inner.spaces[p])
                                                THEN Del(inner.spaces, p)
                                                ELSE inner.spaces,
                                                "ok", ran, called)
                               \* the inner hook emptied and deleted the Space:
                               \* is_empty holds and del raises
                               ELSE CloseResult(inner.spaces, "KeyError", ran, called)

OnCloseNested(c) ==
    /\ phase[c] = "open"
    /\ LET result == onclose_nested(spaces, c)
       IN  /\ phase' = [x \in Conns |-> IF x \in result.ran THEN "closed" ELSE phase[x]]
           /\ spaces' = result.spaces
           /\ closeCalled' = closeCalled \cup result.called
           /\ orphaned' = orphaned \cup
                    IF path[c] \in DOMAIN spaces
                    THEN payloads(SelectSeq(spaces[path[c]].pending,
                                            LAMBDA e : e[1] \in result.ran))
                    ELSE {}
    /\ UNCHANGED <<path, sent, nmsg, failed, submitter, stepVars>>

-----------------------------------------------------------------------------
(* onmessage(request, message) *)

\* A response that never carries the msg_id.
response_text_no_id(data) ==
    json_dumps([code |-> "success", result |-> [configuration |-> configuration]])

response_text(data) ==
    LET response == [code |-> "success",
                     result |-> [configuration |-> configuration]]
    IN  IF "msg_id" \in DOMAIN data
        THEN json_dumps([k \in (DOMAIN response) \cup {"msg_id"} |->
                            IF k = "msg_id" THEN data["msg_id"] ELSE response[k]])
        ELSE json_dumps(response)

\* lines 209-212: the table after the Space of the path is looked up or created
notify_spaces(request) ==
    IF path[request] \in DOMAIN spaces
    THEN spaces
    ELSE Put(spaces, path[request], Space(path[request]))

notify_other(request) ==
    get_other(notify_spaces(request)[path[request]], request)

\* A queue that takes new entries at its head.
enqueue_at_head(table, request, d) ==
    [table EXCEPT ![path[request]].pending = <<(<<request, d>>)>> \o @]

enqueue(table, request, d) ==
    [table EXCEPT ![path[request]].pending = Append(@, <<request, d>>)]

\* What one call of onmessage does: the new table, the connection whose
\* send_message is called (None: nobody) with which text, whether that call
\* raised, and the exception that leaves the hook ("ok": none).
Effect(table, to, text, sendFailed, outcome) ==
    [spaces |-> table, to |-> to, text |-> text, sendFailed |-> sendFailed,
     outcome |-> outcome]

NoSend(table, outcome) == Effect(table, None, <<>>, FALSE, outcome)

\* A relay that keeps what it could not deliver for the next arrival.
onmessage_notify_requeues(request, data, sendOk) ==
    LET other == notify_other(request)
    IN  IF other # None /\ "data" \in DOMAIN data
        THEN Effect(IF sendOk
                    THEN notify_spaces(request)
                    ELSE enqueue(notify_spaces(request), request, data["data"]),
                    other, notify_text(data["data"]), ~sendOk, "ok")
        ELSE IF "data" \in DOMAIN data
             THEN NoSend(enqueue(notify_spaces(request), request, data["data"]), "ok")
             ELSE NoSend(notify_spaces(request),
                         IF other # None THEN "ok" ELSE "KeyError")

\* lines 214-221; the bare except swallows whatever the try block raises:
\* the send_message failure and the KeyError of data['data'] alike
onmessage_notify(request, data, sendOk) ==
    LET other == notify_other(request)
    IN  IF other # None
        THEN IF "data" \in DOMAIN data
             THEN Effect(notify_spaces(request), other,
                         notify_text(data["data"]), ~sendOk, "ok")
             ELSE NoSend(notify_spaces(request), "ok")
        ELSE IF "data" \in DOMAIN data
             THEN NoSend(enqueue(notify_spaces(request), request, data["data"]), "ok")
             ELSE NoSend(notify_spaces(request), "KeyError")

\* A configuration request that looks up or creates the Space first.
onmessage_get_creates(request, data, sendOk) ==
    IF "resource" \notin DOMAIN data
    THEN NoSend(spaces, "KeyError")
    ELSE IF data["resource"] = "/peerconnection"
         THEN Effect(notify_spaces(request), request, response_text(data), ~sendOk,
                     IF sendOk THEN "ok" ELSE "IOError")
         ELSE NoSend(spaces, "ok")

\* lines 202-206
onmessage_get(request, data, sendOk) ==
    IF "resource" \notin DOMAIN data
    THEN NoSend(spaces, "KeyError")
    ELSE IF data["resource"] = "/peerconnection"
         THEN Effect(spaces, request, response_text(data), ~sendOk,
                     IF sendOk THEN "ok" ELSE "IOError")
         ELSE NoSend(spaces, "ok")

\* A dispatch whose second branch is an else: whatever is no configuration
\* request is relayed.
onmessage_else_notify(request, message, sendOk) ==
    IF ~parses(message)
    THEN NoSend(spaces, "ValueError")
    ELSE LET data == json_loads(message)
         IN  IF "method" \notin DOMAIN data
             THEN NoSend(spaces, "KeyError")
             ELSE IF data["method"] = "GET" /\ "resource" \notin DOMAIN data
                  THEN NoSend(spaces, "KeyError")
                  ELSE IF data["method"] = "GET" /\ data["resource"] = "/peerconnection"
                       THEN onmessage_get(request, data, sendOk)
                       ELSE onmessage_notify(request, data, sendOk)

\* sendOk: whether the socket written to is still there (send_message raises
\* when it is not)
onmessage(request, message, sendOk) ==
    IF ~parses(message)
    THEN NoSend(spaces, "ValueError")
    ELSE LET data == json_loads(message)
         IN  IF "method" \notin DOMAIN data
             THEN NoSend(spaces, "KeyError")
             ELSE IF data["method"] = "GET"
                  THEN onmessage_get(request, data, sendOk)
                  ELSE IF data["method"] = "NOTIFY"
                       THEN onmessage_notify(request, data, sendOk)
                       ELSE NoSend(spaces, "ok")

\* The payload of the n-th message: clients send distinct payloads.
Payload(n) == "d" \o ToString(n)

MsgIds == {"m" \o ToString(i) : i \in 1..NumIds}

\* The configuration requests a client may send.
ConfigRequests ==
    {json_dumps([method |-> "GET", resource |-> "/peerconnection", msg_id |-> m]) :
        m \in MsgIds}
    \cup {json_dumps([method |-> "GET", resource |-> "/peerconnection"])}

\* The other texts a client may send as its n-th message: a NOTIFY, the two
\* requests with a field missing, another resource, an unknown method, no
\* method, and a text that is no JSON.
MalformedMessages ==
    {json_dumps([method |-> "GET", resource |-> "/other"]),
     json_dumps([method |-> "GET"]),
     json_dumps([method |-> "NOTIFY"]),
     json_dumps([method |-> "BYE"]),
     << <<"{">> >>}

\* The texts with a method that is not served: another resource, another
\* method.
UnknownMethodMessages ==
    {json_dumps([method |-> "GET", resource |-> "/other"]),
     json_dumps([method |-> "BYE"])}

\* The texts that lack a field the dispatch reads: the method, the resource
\* of a GET, the data of a NOTIFY.
MissingFieldMessages(n) ==
    {json_dumps([data |-> Payload(n)]),
     json_dumps([method |-> "GET"]),
     json_dumps([method |-> "NOTIFY"])}

NotifyMessage(n) == json_dumps([method |-> "NOTIFY", data |-> Payload(n)])

RelayMessages(n) ==
    MalformedMessages \cup {NotifyMessage(n), json_dumps([data |-> Payload(n)])}

ClientMessages(n) == ConfigRequests \cup RelayMessages(n)

\* send_message can fail only where it is called
SendOutcomes(c, message) ==
    IF onmessage(c, message, TRUE).to # None THEN BOOLEAN ELSE {TRUE}

OnMessage(c, message, sendOk) ==
    /\ phase[c] = "open"
    /\ nmsg < MaxMsgs
    /\ nmsg' = nmsg + 1
    /\ LET eff == onmessage(c, message, sendOk)
       IN  /\ spaces' = eff.spaces
           /\ sent' = IF eff.to # None
                      THEN [sent EXCEPT ![eff.to] = Append(@, eff.text)]
                      ELSE sent
    /\ UNCHANGED <<phase, path, closeCalled, orphaned, stepVars>>

-----------------------------------------------------------------------------
MessageStep(messages) ==
    \E c \in Conns, message \in messages :
        \E sendOk \in SendOutcomes(c, message) :
            OnMessage(c, message, sendOk) /\ UNCHANGED <<failed, submitter>>

\* The signalling traffic: every hook, and every message but the
\* configuration requests, which never touch the table (onmessage_get).
Next ==
    \/ \E c \in Conns, p \in Paths : OnHandshake(c, p)
    \/ \E c \in Conns : OnOpen(c)
    \/ MessageStep(RelayMessages(nmsg + 1))
    \/ \E c \in Conns : OnClose(c)

Spec == Init /\ [][Next]_vars

\* The same with a configuration request as the last message of the traffic.
ConfigStep ==
    /\ nmsg = MaxMsgs - 1
    /\ MessageStep(ConfigRequests)

NextConfig ==
    \/ \E c \in Conns, p \in Paths : OnHandshake(c, p)
    \/ \E c \in Conns : OnOpen(c)
    \/ MessageStep({NotifyMessage(nmsg + 1)})
    \/ ConfigStep
    \/ \E c \in Conns : OnClose(c)

SpecConfig == Init /\ [][NextConfig]_vars

\* The NOTIFY traffic alone, with the failed forwards on record.
ForwardStep ==
    \E c \in Conns : \E sendOk \in SendOutcomes(c, NotifyMessage(nmsg + 1)) :
        /\ OnMessage(c, NotifyMessage(nmsg + 1), sendOk)
        /\ failed' = LET eff == onmessage(c, NotifyMessage(nmsg + 1), sendOk)
                     IN  IF eff.sendFailed THEN failed \cup {eff.text} ELSE failed
        /\ UNCHANGED submitter

NextForward ==
    \/ \E c \in Conns, p \in Paths : OnHandshake(c, p)
    \/ \E c \in Conns : OnOpen(c)
    \/ ForwardStep
    \/ \E c \in Conns : OnClose(c)

SpecForward == Init /\ [][NextForward]_vars

\* The NOTIFY traffic alone, with the sender of every NOTIFY on record.
SenderStep ==
    \E c \in Conns : \E sendOk \in SendOutcomes(c, NotifyMessage(nmsg + 1)) :
        /\ OnMessage(c, NotifyMessage(nmsg + 1), sendOk)
        /\ submitter' = Append(submitter, c)
        /\ UNCHANGED failed

NextSender ==
    \/ \E c \in Conns, p \in Paths : OnHandshake(c, p)
    \/ \E c \in Conns : OnOpen(c)
    \/ SenderStep
    \/ \E c \in Conns : OnClose(c)

SpecSender == Init /\ [][NextSender]_vars

\* The NOTIFY traffic with a transport whose close() runs the onclose hook.
NextNested ==
    \/ \E c \in Conns, p \in Paths : OnHandshake(c, p)
    \/ \E c \in Conns : OnOpen(c)
    \/ MessageStep({NotifyMessage(nmsg + 1)})
    \/ \E c \in Conns : OnCloseNested(c)

SpecNested == Init /\ [][NextNested]_vars

\* The NOTIFY traffic with the messages of an unserved method.
NextUnknown ==
    \/ \E c \in Conns, p \in Paths : OnHandshake(c, p)
    \/ \E c \in Conns : OnOpen(c)
    \/ MessageStep({NotifyMessage(nmsg + 1)} \cup UnknownMethodMessages)
    \/ \E c \in Conns : OnClose(c)

SpecUnknown == Init /\ [][NextUnknown]_vars

-----------------------------------------------------------------------------
(* The hooks of different connections running concurrently, one statement  *)
(* at a time.  A Space is an object on the heap, the table maps a path to   *)
(* an object, and the local variable space of a hook refers to an object,   *)
(* registered or not.                                                       *)

\* the table as the atomic hooks see it
View(objects, table) == [p \in DOMAIN table |-> objects[table[p]]]

Goto(c, label) == [thread EXCEPT ![c].pc = label]

\* onopen, lines 174-175: the test and the lookup
OpenLookup(c) ==
    /\ phase[c] = "accepted"
    /\ thread[c].pc = "idle"
    /\ thread' = IF path[c] \in DOMAIN reg
                 THEN [thread EXCEPT ![c].pc = "open_add", ![c].space = reg[path[c]]]
                 ELSE Goto(c, "open_create")
    /\ UNCHANGED <<spaces, phase, path, sent, closeCalled, nmsg, failed,
                   submitter, orphaned, heap, reg>>

\* onopen, line 177: a new Space is created and put in the table
OpenCreate(c) ==
    /\ thread[c].pc = "open_create"
    /\ heap' = Append(heap, Space(path[c]))
    /\ reg' = Put(reg, path[c], Len(heap) + 1)
    /\ thread' = [thread EXCEPT ![c].pc = "open_add", ![c].space = Len(heap) + 1]
    /\ spaces' = View(heap', reg')
    /\ UNCHANGED <<phase, path, sent, closeCalled, nmsg, failed, submitter,
                   orphaned>>

\* onopen, line 179: space.add(request)
OpenAdd(c) ==
    /\ thread[c].pc = "open_add"
    /\ heap' = [heap EXCEPT ![thread[c].space] = add(@, c)]
    /\ thread' = [thread EXCEPT ![c].pc = "open_flush", ![c].i = 1]
    /\ spaces' = View(heap', reg)
    /\ UNCHANGED <<phase, path, sent, closeCalled, nmsg, failed, submitter,
                   orphaned, reg>>

\* onopen, lines 181-182: one turn of the loop over the list as it is now
OpenFlushSend(c) ==
    /\ thread[c].pc = "open_flush"
    /\ thread[c].i <= Len(heap[thread[c].space].pending)
    /\ sent' = [sent EXCEPT ![c] =
                    Append(@, notify_text(heap[thread[c].space].pending[thread[c].i][2]))]
    /\ thread' = [thread EXCEPT ![c].i = @ + 1]
    /\ UNCHANGED <<spaces, phase, path, closeCalled, nmsg, failed, submitter,
                   orphaned, heap, reg>>

\* onopen, line 181: the loop finds the list exhausted
OpenFlushDone(c) ==
    /\ thread[c].pc = "open_flush"
    /\ thread[c].i > Len(heap[thread[c].space].pending)
    /\ thread' = Goto(c, "open_clear")
    /\ UNCHANGED <<spaces, phase, path, sent, closeCalled, nmsg, failed,
                   submitter, orphaned, heap, reg>>

\* onopen, line 183, and the return
OpenClear(c) ==
    /\ thread[c].pc = "open_clear"
    /\ heap' = [heap EXCEPT ![thread[c].space].pending = <<>>]
    /\ thread' = [thread EXCEPT ![c] = Idle]
    /\ phase' = [phase EXCEPT ![c] = "open"]
    /\ spaces' = View(heap', reg)
    /\ UNCHANGED <<path, sent, closeCalled, nmsg, failed, submitter, orphaned,
                   reg>>

\* onmessage of a NOTIFY, lines 200-210: the test and the lookup
NotifyLookup(c) ==
    /\ phase[c] = "open"
    /\ thread[c].pc = "idle"
    /\ nmsg < MaxMsgs
    /\ nmsg' = nmsg + 1
    /\ submitter' = Append(submitter, c)
    /\ thread' = IF path[c] \in DOMAIN reg
                 THEN [thread EXCEPT ![c].pc = "msg_other",
                                     ![c].space = reg[path[c]],
                                     ![c].data = Payload(nmsg + 1)]
                 ELSE [thread EXCEPT ![c].pc = "msg_create",
                                     ![c].data = Payload(nmsg + 1)]
    /\ UNCHANGED <<spaces, phase, path, sent, closeCalled, failed, orphaned,
                   heap, reg>>

\* onmessage, line 212
NotifyCreate(c) ==
    /\ thread[c].pc = "msg_create"
    /\ heap' = Append(heap, Space(path[c]))
    /\ reg' = Put(reg, path[c], Len(heap) + 1)
    /\ thread' = [thread EXCEPT ![c].pc = "msg_other", ![c].space = Len(heap) + 1]
    /\ spaces' = View(heap', reg')
    /\ UNCHANGED <<phase, path, sent, closeCalled, nmsg, failed, submitter,
                   orphaned>>

\* onmessage, lines 214-215
NotifyOther(c) ==
    /\ thread[c].pc = "msg_other"
    /\ LET other == get_other(heap[thread[c].space], c)
       IN  thread' = [thread EXCEPT
                        ![c].other = other,
                        ![c].pc = IF other # None THEN "msg_send" ELSE "msg_enqueue"]
    /\ UNCHANGED <<spaces, phase, path, sent, closeCalled, nmsg, failed,
                   submitter, orphaned, heap, reg>>

\* onmessage, lines 216-219, and the return
NotifySend(c) ==
    /\ thread[c].pc = "msg_send"
    /\ sent' = [sent EXCEPT ![thread[c].other] =
                    Append(@, notify_text(thread[c].data))]
    /\ thread' = [thread EXCEPT ![c] = Idle]
    /\ UNCHANGED <<spaces, phase, path, closeCalled, nmsg, failed, submitter,
                   orphaned, heap, reg>>

\* onmessage, line 221, and the return
NotifyEnqueue(c) ==
    /\ thread[c].pc = "msg_enqueue"
    /\ heap' = [heap EXCEPT ![thread[c].space].pending =
                    Append(@, <<c, thread[c].data>>)]
    /\ thread' = [thread EXCEPT ![c] = Idle]
    /\ spaces' = View(heap', reg)
    /\ UNCHANGED <<phase, path, sent, closeCalled, nmsg, failed, submitter,
                   orphaned, reg>>

\* onclose, lines 186-195, in one step on the registered object
CloseObject(c) ==
    /\ phase[c] = "open"
    /\ thread[c].pc = "idle"
    /\ phase' = [phase EXCEPT ![c] = "closed"]
    /\ closeCalled' = closeCalled \cup ({onclose_other(c)} \ {None})
    /\ IF path[c] \in DOMAIN reg
       THEN /\ heap' = [heap EXCEPT ![reg[path[c]]] = onclose_space(c)]
            /\ reg' = IF is_empty(onclose_space(c)) THEN Del(reg, path[c]) ELSE reg
       ELSE UNCHANGED <<heap, reg>>
    /\ spaces' = View(heap', reg')
    /\ UNCHANGED <<path, sent, nmsg, failed, submitter, orphaned, thread>>

NextSteps ==
    \/ \E c \in Conns, p \in Paths : OnHandshake(c, p)
    \/ \E c \in Conns : OpenLookup(c)
    \/ \E c \in Conns : OpenCreate(c)
    \/ \E c \in Conns : OpenAdd(c)
    \/ \E c \in Conns : OpenFlushSend(c)
    \/ \E c \in Conns : OpenFlushDone(c)
    \/ \E c \in Conns : OpenClear(c)
    \/ \E c \in Conns : NotifyLookup(c)
    \/ \E c \in Conns : NotifyCreate(c)
    \/ \E c \in Conns : NotifyOther(c)
    \/ \E c \in Conns : NotifySend(c)
    \/ \E c \in Conns : NotifyEnqueue(c)
    \/ \E c \in Conns : CloseObject(c)

SpecSteps == Init /\ [][NextSteps]_vars

-----------------------------------------------------------------------------
(* Vocabulary of the properties. *)

Registered == DOMAIN spaces

Members(p) == {spaces[p].requests[i] : i \in 1..Len(spaces[p].requests)}

\* the steps of the four hooks, read off the transport's positions
HandshakeStep(c) == phase[c] = "new" /\ phase'[c] # "new"

OpenStep(c) == phase[c] = "accepted" /\ phase'[c] = "open"

CloseStep(c) == phase[c] = "open" /\ phase'[c] = "closed"

-----------------------------------------------------------------------------
(* C1. Capacity: in every reachable state the Space registered for a path  *)
(* has at most 2 attached members, whatever the interleaving of the hooks  *)
(* of different connections (onhandshake and onopen of one connection are  *)
(* two steps).                                                             *)
C1_Capacity == \A p \in Registered : Len(spaces[p].requests) <= 2

(* C2. Admission rejection: onhandshake for a path whose Space has 2       *)
(* members raises; onhandshake for a path with no Space or fewer than 2    *)
(* members does not; and in every case it leaves the table, every member   *)
(* list and every pending list unchanged.                                  *)
C2_AdmissionRejection ==
    [][\A c \in Conns : HandshakeStep(c) =>
          LET p == path'[c]
          IN  /\ (p \in Registered /\ Len(spaces[p].requests) = 2)
                    => phase'[c] = "rejected"
              /\ (p \notin Registered \/ Len(spaces[p].requests) < 2)
                    => phase'[c] = "accepted"
              /\ spaces' = spaces]_vars

\* a handshake was refused on a path that holds two members
C2_Witness ==
    \E c \in Conns :
        /\ phase[c] = "rejected"
        /\ path[c] \in Registered
        /\ Len(spaces[path[c]].requests) = 2

(* C3. Immediate relay: when onmessage processes a NOTIFY from connection  *)
(* A while A and another connection B are both members of A's Space, B is  *)
(* sent exactly one message {method: NOTIFY, data: d}, d the data of the    *)
(* request, within that onmessage step, and nothing is appended to the     *)
(* pending list.                                                           *)
C3_ImmediateRelay ==
    [][nmsg' # nmsg =>
          \A a \in Conns, ok \in BOOLEAN :
              (/\ path[a] \in Registered
               /\ a \in Members(path[a])
               /\ OnMessage(a, NotifyMessage(nmsg + 1), ok))
              => \A b \in Members(path[a]) \ {a} :
                    /\ sent'[b] = Append(sent[b], notify_text(Payload(nmsg + 1)))
                    /\ spaces'[path[a]].pending = spaces[path[a]].pending]_vars

\* prefix order on sequences
IsPrefix(s, t) == Len(s) <= Len(t) /\ SubSeq(t, 1, Len(s)) = s

QueuedBy(p, a) == SelectSeq(spaces[p].pending, LAMBDA e : e[1] = a)

C5_DiscardOnSenderExit ==
    \A c \in Conns : \A i \in 1..Len(sent[c]) : \A d \in orphaned :
        sent[c][i] # notify_text(d)

\* the sole member queued a payload and closed; a later connection is the
\* only member of the path and was sent nothing
C5_Witness ==
    \E a, b \in Conns :
        /\ phase[a] = "closed"
        /\ orphaned # {}
        /\ closeCalled = {}
        /\ path[b] = path[a]
        /\ path[b] \in Registered
        /\ spaces[path[b]].requests = <<b>>
        /\ sent[b] = <<>>

(* C6. Cascade close: when onclose runs for a connection A whose Space has *)
(* exactly the two members A and B, then by the end of that onclose the    *)
(* server has called B.close(), neither A nor B is a member of any Space,  *)
(* and the path is absent from the table.                                  *)
C6_CascadeClose ==
    [][\A a \in Conns : CloseStep(a) =>
          \A b \in Conns \ {a} :
              (/\ path[a] \in Registered
               /\ Len(spaces[path[a]].requests) = 2
               /\ Members(path[a]) = {a, b})
              => /\ b \notin closeCalled
                 /\ closeCalled' = closeCalled \cup {b}
                 /\ path[a] \notin Registered'
                 /\ \A p \in Registered' : Members(p)' \cap {a, b} = {}]_vars

\* a member of a pair closed, its peer was closed by the server and the
\* path is gone
C6_Witness ==
    \E a, b \in Conns :
        /\ a # b
        /\ path[a] = path[b]
        /\ phase[a] = "closed"
        /\ phase[b] = "open"
        /\ b \in closeCalled
        /\ path[a] \notin Registered

QueuedByOthers(pending, b) == SelectSeq(pending, LAMBDA e : e[1] # b)

(* C7. The close hook the transport fires for a connection B that its      *)
(* peer's cascade close already detached and closed is harmless: whatever  *)
(* ran in between, that late onclose(B) removes no member other than B,    *)
(* discards no pending payload queued by another connection, calls close() *)
(* on no connection and removes no Space that has members.                 *)
C7_LateCloseHarmless ==
    [][\A b \in Conns : (CloseStep(b) /\ b \in closeCalled) =>
          /\ closeCalled' = closeCalled
          /\ \A p \in Registered :
                /\ Members(p) \ {b} # {} => p \in Registered'
                /\ p \in Registered' =>
                      /\ Members(p) \ {b} \subseteq Members(p)'
                      /\ QueuedByOthers(spaces[p].pending, b)
                            = QueuedByOthers(spaces'[p].pending, b)
                /\ p \notin Registered' =>
                      QueuedByOthers(spaces[p].pending, b) = <<>>]_vars

\* p saw one pair only: a closed, b was closed by the cascade, and nobody
\* else has opened on p since
AfterCascade(p) ==
    \E a, b \in Conns :
        /\ a # b
        /\ phase[a] = "closed"
        /\ b \in closeCalled
        /\ {x \in Conns : path[x] = p /\ phase[x] \in {"open", "closed"}} = {a, b}

(* C8. Fresh session after cascade: after a cascade close has removed the  *)
(* Space of a path, the next connection whose onopen runs on that path is  *)
(* sent no NOTIFY during its onopen and becomes the only member of a new   *)
(* Space with an empty pending list, whatever hooks of the two previous    *)
(* connections (late messages, late close hook) ran in between.            *)
C8_FreshSessionAfterCascade ==
    [][\A c \in Conns : (OpenStep(c) /\ AfterCascade(path[c])) =>
          /\ sent'[c] = sent[c]
          /\ spaces'[path[c]] = add(Space(path[c]), c)]_vars

NoEmptySpace ==
    \A p \in Registered :
        ~(spaces[p].requests = <<>> /\ spaces[p].pending = <<>>)

CloseLeavesMembers ==
    \A c \in Conns : CloseStep(c) =>
        (path[c] \in Registered' => spaces'[path[c]].requests # <<>>)

FlushKeepsSpaces == \A c \in Conns : OpenStep(c) => Registered \subseteq Registered'

(* C9. Registry lifecycle: between hooks no Space in the table has both an *)
(* empty member list and an empty pending list; right after an onclose for *)
(* a path, the path is in the table only if its Space still has a member;  *)
(* and the flush of onopen never removes a Space from the table.           *)
C9_RegistryLifecycle ==
    [][NoEmptySpace' /\ CloseLeavesMembers /\ FlushKeepsSpaces]_vars

(* C10. Sessions self-clean: in every reachable state in which every       *)
(* connection that ran onopen has also had its onclose run, the table is   *)
(* empty: no Space and no queued payload outlives its connections.         *)
C10_SelfClean ==
    (\A c \in Conns : phase[c] # "open") => Registered = {}

\* connections opened, queued, were paired and cascade-closed, and all of
\* them have had their close hook
C10_Witness ==
    /\ \A c \in Conns : phase[c] \in {"closed", "rejected"}
    /\ \E c \in Conns : phase[c] = "rejected"
    /\ closeCalled # {}
    /\ \E c \in Conns : sent[c] # <<>>
    /\ Registered = {}


-----------------------------------------------------------------------------
\* The calls of send_message, over all connections, that were given text t.
Attempts(t) ==
    {ci \in Conns \X (1..MaxMsgs) :
        ci[2] <= Len(sent[ci[1]]) /\ sent[ci[1]][ci[2]] = t}

\* A forward that failed was attempted once and is in no queue.
NeverRetried ==
    \A t \in failed :
        /\ Cardinality(Attempts(t)) = 1
        /\ \A p \in Registered : json_loads(t)["data"] \notin payloads(spaces[p].pending)

\* C11: when the send_message that forwards A's NOTIFY to the other member
\* raises, onmessage returns normally for A and sends A nothing, the payload
\* is not queued and is never sent again, and the table with its member lists
\* and queues is as before.
C11_DeliveryFailureSwallowed ==
    [][/\ failed' # failed =>
            \E a \in Conns :
                LET m == NotifyMessage(nmsg + 1)
                IN  /\ OnMessage(a, m, FALSE)
                    /\ notify_other(a) # None
                    /\ onmessage(a, m, FALSE).sendFailed
                    /\ onmessage(a, m, FALSE).outcome = "ok"
                    /\ sent'[a] = sent[a]
                    /\ spaces' = spaces
       /\ NeverRetried']_vars

C11_Witness ==
    \E a, b \in Conns :
        /\ path[a] \in Registered
        /\ spaces[path[a]].requests = <<a, b>>
        /\ spaces[path[a]].pending = <<>>
        /\ failed = {notify_text(Payload(1))}
        /\ sent[a] = <<>>
        /\ sent[b] = <<notify_text(Payload(1)), notify_text(Payload(2))>>


-----------------------------------------------------------------------------
\* What a message that is ignored leaves behind: no exception leaves the
\* hook, no send_message and no close is called, and the table is as before.
Ignored(a, message, sendOk) ==
    /\ onmessage(a, message, sendOk).outcome = "ok"
    /\ onmessage(a, message, sendOk).to = None
    /\ sent' = sent
    /\ closeCalled' = closeCalled
    /\ phase' = phase
    /\ spaces' = spaces

\* C12: a message that parses but lacks a required field (no method, a GET
\* without resource, a NOTIFY without data, with or without a peer) is
\* ignored: onmessage returns without an exception, sends nothing, closes
\* nothing and leaves the table, the member lists and the queues unchanged.
C12_MissingFieldsNoOp ==
    [][nmsg' # nmsg =>
        \A a \in Conns, ok \in BOOLEAN :
            \A m \in MissingFieldMessages(nmsg + 1) :
                OnMessage(a, m, ok) => Ignored(a, m, ok)]_vars

\* C13: a message whose method is present but is neither the GET of
\* /peerconnection nor NOTIFY is ignored: nothing is sent, nothing is closed,
\* no exception leaves the hook and the state is unchanged.
C13_UnknownMethodIgnored ==
    [][nmsg' # nmsg =>
        \A a \in Conns, ok \in BOOLEAN :
            \A m \in UnknownMethodMessages :
                OnMessage(a, m, ok) => Ignored(a, m, ok)]_vars

\* Two messages were taken from an open connection on an unregistered path
\* and none was a NOTIFY: no payload was queued, sent or discarded.
C13_Witness ==
    /\ nmsg = MaxMsgs
    /\ orphaned = {}
    /\ \A c \in Conns : sent[c] = <<>>
    /\ \A p \in Registered : spaces[p].pending = <<>>
    /\ \E c \in Conns : phase[c] = "open" /\ path[c] \notin Registered


-----------------------------------------------------------------------------
\* C14: every GET of /peerconnection is answered to the requester only, with
\* code success and the one static configuration whatever happened before;
\* the response carries the msg_id of the request when it has one and no
\* msg_id when it has none.
C14_ConfigResponse ==
    [][nmsg' # nmsg =>
        \A a \in Conns, ok \in BOOLEAN :
            \A m \in ConfigRequests :
                OnMessage(a, m, ok) =>
                    \E text \in {onmessage(a, m, ok).text} :
                        LET request  == json_loads(m)
                            response == json_loads(text)
                        IN  /\ sent' = [sent EXCEPT ![a] = Append(@, text)]
                            /\ parses(text)
                            /\ response["code"] = "success"
                            /\ response["result"] = [configuration |-> configuration]
                            /\ DOMAIN response \ {"msg_id"} = {"code", "result"}
                            /\ "msg_id" \in DOMAIN response <=> "msg_id" \in DOMAIN request
                            /\ "msg_id" \in DOMAIN request =>
                                    response["msg_id"] = request["msg_id"]]_vars

\* A connection that was first sent a queued NOTIFY is answered with the
\* msg_id of its request.
C14_Witness ==
    \E c \in Conns :
        sent[c] = <<notify_text(Payload(1)),
                    json_dumps([code |-> "success",
                                result |-> [configuration |-> configuration],
                                msg_id |-> "m1"])>>

\* C15: a GET of /peerconnection, in any state and from any connection (a
\* member, one detached by its peer's onclose, one on a path without Space),
\* leaves the table, the member lists and the queues unchanged, and nothing
\* is sent to or closed on any other connection.
C15_GetSideEffectFree ==
    [][nmsg' # nmsg =>
        \A a \in Conns, ok \in BOOLEAN :
            \A m \in ConfigRequests :
                OnMessage(a, m, ok) =>
                    /\ spaces' = spaces
                    /\ \A b \in Conns \ {a} : sent'[b] = sent[b]
                    /\ closeCalled' = closeCalled
                    /\ phase' = phase]_vars

\* A connection detached by its peer's onclose, on a path without Space, has
\* been answered.
C15_Witness ==
    \E c \in Conns :
        /\ c \in closeCalled
        /\ phase[c] = "open"
        /\ path[c] \notin Registered
        /\ sent[c] = <<json_dumps([code |-> "success",
                                   result |-> [configuration |-> configuration]])>>


-----------------------------------------------------------------------------
\* The places in the log of b where the NOTIFY with the n-th payload stands.
SentAt(b, n) ==
    {i \in 1..Len(sent[b]) : sent[b][i] = notify_text(Payload(n))}

\* C19: of two NOTIFYs that the same connection sent one after the other and
\* that were both sent to the same connection B, B is sent the first before
\* the second, whether each was queued and flushed or relayed at once; and no
\* payload is sent to B more than once.
C19_SenderOrder ==
    \A b \in Conns :
        /\ \A m1, m2 \in 1..nmsg :
                (m1 < m2 /\ submitter[m1] = submitter[m2]) =>
                    \A i \in SentAt(b, m1), j \in SentAt(b, m2) : i < j
        /\ \A m \in 1..nmsg : Cardinality(SentAt(b, m)) <= 1

\* The first NOTIFY of a was queued and flushed to b, its second relayed.
C19_Witness ==
    \E a, b \in Conns :
        /\ a # b
        /\ submitter = <<a, a>>
        /\ sent[b] = <<notify_text(Payload(1)), notify_text(Payload(2))>>
        /\ path[a] \in Registered
        /\ spaces[path[a]].requests = <<a, b>>

\* C20: with onopen before any message of a connection and onclose at most
\* once and after onopen, no connection is ever sent, by relay or by flush, a
\* NOTIFY whose payload it sent itself.
C20_NoSelfDelivery ==
    \A m \in 1..nmsg : SentAt(submitter[m], m) = {}

\* A connection that queued a payload while alone is still a member after the
\* payload was flushed to the connection that opened next.
C20_Witness ==
    \E a, b \in Conns :
        /\ submitter = <<a>>
        /\ path[a] \in Registered
        /\ spaces[path[a]].requests = <<a, b>>
        /\ spaces[path[a]].pending = <<>>
        /\ sent[b] = <<notify_text(Payload(1))>>
        /\ sent[a] = <<>>


-----------------------------------------------------------------------------
\* C16: onclose never deletes from the table a path that is no longer in it
\* (no KeyError leaves the hook), also when the close() of the cascade runs
\* the onclose of the other member inside the outer onclose, so that the
\* inner call has deleted the Space before the outer call reaches its del.
C16_NoDoubleDelete ==
    [][\A c \in Conns :
            OnCloseNested(c) => onclose_nested(spaces, c).outcome = "ok"]_vars


-----------------------------------------------------------------------------
\* The Space objects created for path p.
ObjectsOf(p) == {h \in 1..Len(heap) : heap[h].path = p}

\* C17: when the onopen hooks (or the create-if-absent of a NOTIFY) of two
\* connections on the same unregistered path interleave statement by
\* statement, one Space serves the path: every connection that has completed
\* onopen and was not detached is a member of the Space registered under its
\* path, and no connection is a member of a Space object that the table does
\* not map.
C17_SingleSpace ==
    /\ \A c \in Conns :
            (phase[c] = "open" /\ c \notin closeCalled) =>
                path[c] \in Registered /\ c \in Members(path[c])
    /\ \A h \in 1..Len(heap) :
            heap[h].requests # <<>> =>
                heap[h].path \in DOMAIN reg /\ reg[heap[h].path] = h

\* C18: when onmessage of A's NOTIFY d and onopen of B on the same path
\* interleave statement by statement and neither connection closes, then
\* once both hooks have returned d has been sent to B exactly once and d is
\* not in the queue of the Space with the two members.
C18_NotifyReachesPeer ==
    \A a, b \in Conns :
        (/\ a # b
         /\ path[a] = path[b]
         /\ {x \in Conns : path[x] = path[a]} = {a, b}
         /\ phase[a] = "open" /\ phase[b] = "open"
         /\ thread[a] = Idle /\ thread[b] = Idle
         /\ Cardinality(ObjectsOf(path[a])) = 1
         /\ path[a] \in Registered
         /\ Members(path[a]) = {a, b})
        => \A m \in 1..nmsg :
                submitter[m] = a =>
                    /\ Cardinality(SentAt(b, m)) = 1
                    /\ Payload(m) \notin payloads(spaces[path[a]].pending)

=============================================================================
